---------------------------- MODULE Spec2Model ----------------------------
(***************************************************************************)
(* Model of mdBook's markdown rendering utilities (src/utils/mod.rs):      *)
(* the link/image rewriter, the code-fence info normalizer, the            *)
(* quote-curling state machine, the rendering pipeline that composes them  *)
(* and the anchor id deriver.                                              *)
(*                                                                         *)
(* A string is a sequence of characters; a character is a one-element      *)
(* name: ASCII characters stand for themselves, the others are written by  *)
(* code point ("U+00DC" is the capital U with diaeresis).                  *)
(***************************************************************************)
EXTENDS Integers, Sequences, FiniteSets, TLC

VARIABLES
    pc,             \* position of the running operation
    dest,           \* fix: the destination handed in
    base,           \* fix / render_markdown_with_base: the base path
    fixed_link,     \* fix: the destination returned
    event,          \* clean_codeblock_headers: the event handed in
    cleaned,        \* clean_codeblock_headers: the event returned
    events,         \* render_markdown_with_base: the parser's event sequence
    converter,      \* render_markdown_with_base: the EventQuoteConverter
    rendered,       \* render_markdown_with_base: events handed to push_html
    runs,           \* convert_quotes_to_curly: the text runs handed in
    curled,         \* convert_quotes_to_curly: the strings returned
    content,        \* id_from_content / normalize_id: the content handed in
    id              \* id_from_content / normalize_id: the id returned

vars == <<pc, dest, base, fixed_link, event, cleaned, events, converter,
          rendered, runs, curled, content, id>>

fixVars == <<dest, fixed_link>>
fenceVars == <<event, cleaned>>
renderVars == <<events, converter, rendered>>
quoteVars == <<runs, curled>>
idVars == <<content, id>>

(***************************************************************************)
(* Bounds of the model.                                                    *)
(***************************************************************************)
MaxDestTokens == 4
MaxInfoLen == 4
MaxEvents == 3
MaxTextLen == 3
MaxContentTokens == 3

(***************************************************************************)
(* Characters and the std::char predicates the code calls.                 *)
(***************************************************************************)
UpperSeq == <<"A", "B", "C", "D", "E", "F", "G", "H", "I", "J", "K", "L", "M",
              "N", "O", "P", "Q", "R", "S", "T", "U", "V", "W", "X", "Y", "Z">>
LowerSeq == <<"a", "b", "c", "d", "e", "f", "g", "h", "i", "j", "k", "l", "m",
              "n", "o", "p", "q", "r", "s", "t", "u", "v", "w", "x", "y", "z">>
AsciiUpper == {UpperSeq[i] : i \in DOMAIN UpperSeq}
AsciiLower == {LowerSeq[i] : i \in DOMAIN LowerSeq}
AsciiDigit == {"0", "1", "2", "3", "4", "5", "6", "7", "8", "9"}

\* Non-ASCII characters of the model: U+00DC and U+00FC are the capital and
\* the small u with diaeresis, U+4E2D is a CJK ideograph (no case),
\* U+1F419 is an emoji, U+00A0 the no-break space, U+3000 the ideographic
\* space, U+2018..U+201D the curly quotes.
NonAsciiUpper == {"U+00DC"}
NonAsciiLower == {"U+00FC"}
NonAsciiCaseless == {"U+4E2D"}
TAB == "U+0009"
LF == "U+000A"
Whitespace == {" ", TAB, LF, "U+00A0", "U+3000"}

\* char::is_whitespace
is_whitespace(ch) == ch \in Whitespace

\* char::is_alphanumeric
is_alphanumeric(ch) ==
    ch \in AsciiUpper \cup AsciiLower \cup AsciiDigit
           \cup NonAsciiUpper \cup NonAsciiLower \cup NonAsciiCaseless

\* char::to_ascii_lowercase: only A-Z change.
to_ascii_lowercase(ch) ==
    IF ch \in AsciiUpper
        THEN LowerSeq[CHOOSE i \in DOMAIN UpperSeq : UpperSeq[i] = ch]
        ELSE ch

\* Concatenation of a sequence of strings.
RECURSIVE Flatten(_)
Flatten(ss) == IF ss = <<>> THEN <<>> ELSE Head(ss) \o Flatten(Tail(ss))

\* All sequences of at most n elements of S.
SeqsUpTo(S, n) == UNION {[1..k -> S] : k \in 0..n}

SetMin(S) == CHOOSE x \in S : \A y \in S : x <= y
SetMax(S) == CHOOSE x \in S : \A y \in S : y <= x

(***************************************************************************)
(* adjust_links::fix                                                       *)
(***************************************************************************)
\* SCHEME_LINK = ^[a-z][a-z0-9+.-]*:
SchemeChars == AsciiLower \cup AsciiDigit \cup {"+", ".", "-"}

SCHEME_LINK_is_match(d) ==
    /\ Len(d) >= 2
    /\ d[1] \in AsciiLower
    /\ \E k \in 2..Len(d) :
          /\ d[k] = ":"
          /\ \A j \in 2..(k - 1) : d[j] \in SchemeChars

\* ".md" starts at position p of d.
IsMdAt(d, p) ==
    /\ p >= 1
    /\ p + 2 <= Len(d)
    /\ d[p] = "."
    /\ d[p + 1] = "m"
    /\ d[p + 2] = "d"

\* The regex "." matches every character but the line feed (the parser
\* hands over destinations without line feeds; the test is kept as the
\* regex has it).
DotStar(d, from, to) == \A j \in from..to : d[j] # LF

\* MD_LINK = (?P<link>.*)\.md(?P<anchor>#.*)?  -- unanchored: the match
\* starts at the leftmost position from which it can succeed, the greedy
\* link group takes the last ".md" it can reach, and the optional anchor
\* group takes all it can.
MD_LINK_captures(d) ==
    LET reach(s) == {p \in s..Len(d) : IsMdAt(d, p) /\ DotStar(d, s, p - 1)}
        starts == {s \in 1..Len(d) : reach(s) # {}}
    IN  IF starts = {}
            THEN [matched |-> FALSE, link |-> <<>>,
                  has_anchor |-> FALSE, anchor |-> <<>>]
            ELSE LET s == SetMin(starts)
                     p == SetMax(reach(s))
                     hash == p + 3
                     has == hash <= Len(d) /\ d[hash] = "#"
                     last == SetMax({e \in hash..Len(d) :
                                        DotStar(d, hash + 1, e)})
                 IN  [matched |-> TRUE,
                      link |-> SubSeq(d, s, p - 1),
                      has_anchor |-> has,
                      anchor |-> IF has THEN SubSeq(d, hash, last) ELSE <<>>]

\* fix with the scheme test left out: every destination is taken as relative.
fix_without_scheme_test(d, b) ==
    LET prefix == IF b # <<>> THEN b \o <<"/">> ELSE <<>>
        caps == MD_LINK_captures(d)
    IN  IF caps.matched
            THEN prefix \o caps.link \o <<".", "h", "t", "m", "l">>
                 \o (IF caps.has_anchor THEN caps.anchor ELSE <<>>)
            ELSE prefix \o d

fix(d, b) ==
    IF ~SCHEME_LINK_is_match(d)
        THEN LET prefix == IF b # <<>> THEN b \o <<"/">> ELSE <<>>
                 caps == MD_LINK_captures(d)
             IN  IF caps.matched
                     THEN prefix \o caps.link \o <<".", "h", "t", "m", "l">>
                          \o (IF caps.has_anchor THEN caps.anchor ELSE <<>>)
                     ELSE prefix \o d
        ELSE d


(***************************************************************************)
(* Render events (pulldown_cmark::Event).  Every event carries all fields; *)
(* the ones its variant does not have are empty.                           *)
(***************************************************************************)
Ev(kind, tag, link_type, d, title, info, text) ==
    [kind |-> kind, tag |-> tag, link_type |-> link_type, dest |-> d,
     title |-> title, info |-> info, text |-> text]

StartLink(link_type, d, title) == Ev("Start", "Link", link_type, d, title, <<>>, <<>>)
EndLink(link_type, d, title) == Ev("End", "Link", link_type, d, title, <<>>, <<>>)
StartImage(link_type, d, title) == Ev("Start", "Image", link_type, d, title, <<>>, <<>>)
EndImage(link_type, d, title) == Ev("End", "Image", link_type, d, title, <<>>, <<>>)
StartCodeBlock(info) == Ev("Start", "CodeBlock", "", <<>>, <<>>, info, <<>>)
EndCodeBlock(info) == Ev("End", "CodeBlock", "", <<>>, <<>>, info, <<>>)
Text(text) == Ev("Text", "", "", <<>>, <<>>, <<>>, text)
Code(text) == Ev("Code", "", "", <<>>, <<>>, <<>>, text)

(***************************************************************************)
(* adjust_links                                                            *)
(***************************************************************************)
\* adjust_links whose Image arm builds a Link.
adjust_links_image_as_link(e, with_base) ==
    IF e.kind = "Start" /\ e.tag \in {"Link", "Image"}
        THEN StartLink(e.link_type, fix(e.dest, with_base), e.title)
        ELSE e

adjust_links(e, with_base) ==
    IF e.kind = "Start" /\ e.tag = "Link"
        THEN StartLink(e.link_type, fix(e.dest, with_base), e.title)
    ELSE IF e.kind = "Start" /\ e.tag = "Image"
        THEN StartImage(e.link_type, fix(e.dest, with_base), e.title)
    ELSE e

(***************************************************************************)
(* clean_codeblock_headers                                                 *)
(***************************************************************************)
\* info.chars().filter(|ch| !ch.is_whitespace()).collect()
RECURSIVE filter_whitespace(_)
filter_whitespace(s) ==
    IF s = <<>> THEN <<>>
    ELSE IF is_whitespace(Head(s)) THEN filter_whitespace(Tail(s))
    ELSE <<Head(s)>> \o filter_whitespace(Tail(s))

\* clean_codeblock_headers that also normalizes the End(CodeBlock) event.
clean_codeblock_headers_end_too(e) ==
    IF e.tag = "CodeBlock"
        THEN [e EXCEPT !.info = filter_whitespace(e.info)]
        ELSE e

clean_codeblock_headers(e) ==
    IF e.kind = "Start" /\ e.tag = "CodeBlock"
        THEN StartCodeBlock(filter_whitespace(e.info))
        ELSE e

(***************************************************************************)
(* convert_quotes_to_curly                                                 *)
(***************************************************************************)
LSQUO == "U+2018"
RSQUO == "U+2019"
LDQUO == "U+201C"
RDQUO == "U+201D"

\* The body of the closure: the converted character.
converted_char(original_char, preceded_by_whitespace) ==
    IF original_char = "'"
        THEN (IF preceded_by_whitespace THEN LSQUO ELSE RSQUO)
    ELSE IF original_char = "\""
        THEN (IF preceded_by_whitespace THEN LDQUO ELSE RDQUO)
    ELSE original_char

\* The map over the characters, from cursor value preceded_by_whitespace.
RECURSIVE map_chars(_, _)
map_chars(s, preceded_by_whitespace) ==
    IF s = <<>> THEN <<>>
    ELSE <<converted_char(Head(s), preceded_by_whitespace)>>
         \o map_chars(Tail(s), is_whitespace(Head(s)))

\* convert_quotes_to_curly whose cursor starts false.
convert_quotes_to_curly_cursor_false(original_text) == map_chars(original_text, FALSE)

\* We'll consider the start to be "whitespace".
convert_quotes_to_curly(original_text) == map_chars(original_text, TRUE)

(***************************************************************************)
(* EventQuoteConverter                                                     *)
(***************************************************************************)
EventQuoteConverter_new(enabled) == [enabled |-> enabled, convert_text |-> TRUE]

\* convert that does not re-enable the conversion at End(CodeBlock).
convert_never_resumes(self, e) ==
    IF ~self.enabled
        THEN [self |-> self, event |-> e]
    ELSE IF e.kind = "Start" /\ e.tag = "CodeBlock"
        THEN [self |-> [self EXCEPT !.convert_text = FALSE], event |-> e]
    ELSE IF e.kind = "Text" /\ self.convert_text
        THEN [self |-> self, event |-> Text(convert_quotes_to_curly(e.text))]
    ELSE [self |-> self, event |-> e]

\* convert that takes a Start(CodeBlock) for one only when its info holds no
\* whitespace.
convert_reading_info(self, e) ==
    IF ~self.enabled
        THEN [self |-> self, event |-> e]
    ELSE IF e.kind = "Start" /\ e.tag = "CodeBlock"
            /\ \A k \in 1..Len(e.info) : ~is_whitespace(e.info[k])
        THEN [self |-> [self EXCEPT !.convert_text = FALSE], event |-> e]
    ELSE IF e.kind = "End" /\ e.tag = "CodeBlock"
        THEN [self |-> [self EXCEPT !.convert_text = TRUE], event |-> e]
    ELSE IF e.kind = "Text" /\ self.convert_text
        THEN [self |-> self, event |-> Text(convert_quotes_to_curly(e.text))]
    ELSE [self |-> self, event |-> e]

\* convert(&mut self, event): the converter afterwards and the event returned.
convert(self, e) ==
    IF ~self.enabled
        THEN [self |-> self, event |-> e]
    ELSE IF e.kind = "Start" /\ e.tag = "CodeBlock"
        THEN [self |-> [self EXCEPT !.convert_text = FALSE], event |-> e]
    ELSE IF e.kind = "End" /\ e.tag = "CodeBlock"
        THEN [self |-> [self EXCEPT !.convert_text = TRUE], event |-> e]
    ELSE IF e.kind = "Text" /\ self.convert_text
        THEN [self |-> self, event |-> Text(convert_quotes_to_curly(e.text))]
    ELSE [self |-> self, event |-> e]

(***************************************************************************)
(* normalize_id and id_from_content                                        *)
(***************************************************************************)
\* normalize_id that keeps the case of every character.
RECURSIVE normalize_id_keeping_case(_)
normalize_id_keeping_case(s) ==
    IF s = <<>> THEN <<>>
    ELSE LET ch == Head(s)
             rest == normalize_id_keeping_case(Tail(s))
         IN  IF is_alphanumeric(ch) \/ ch = "_" \/ ch = "-"
                 THEN <<ch>> \o rest
             ELSE IF is_whitespace(ch)
                 THEN <<"-">> \o rest
             ELSE rest

RECURSIVE normalize_id(_)
normalize_id(s) ==
    IF s = <<>> THEN <<>>
    ELSE LET ch == Head(s)
             rest == normalize_id(Tail(s))
         IN  IF is_alphanumeric(ch) \/ ch = "_" \/ ch = "-"
                 THEN <<to_ascii_lowercase(ch)>> \o rest
             ELSE IF is_whitespace(ch)
                 THEN <<"-">> \o rest
             ELSE rest

REPL_SUB == <<
    <<"<", "e", "m", ">">>,
    <<"<", "/", "e", "m", ">">>,
    <<"<", "c", "o", "d", "e", ">">>,
    <<"<", "/", "c", "o", "d", "e", ">">>,
    <<"<", "s", "t", "r", "o", "n", "g", ">">>,
    <<"<", "/", "s", "t", "r", "o", "n", "g", ">">>,
    <<"&", "l", "t", ";">>,
    <<"&", "g", "t", ";">>,
    <<"&", "a", "m", "p", ";">>,
    <<"&", "#", "3", "9", ";">>,
    <<"&", "q", "u", "o", "t", ";">> >>

\* sub occurs in s at position i.
StartsWithAt(s, sub, i) ==
    /\ i + Len(sub) - 1 <= Len(s)
    /\ \A j \in 1..Len(sub) : s[i + j - 1] = sub[j]

\* str::replace(sub, ""): the non-overlapping occurrences, left to right.
RECURSIVE replace_from(_, _, _)
replace_from(s, sub, i) ==
    IF i > Len(s) THEN <<>>
    ELSE IF StartsWithAt(s, sub, i) THEN replace_from(s, sub, i + Len(sub))
    ELSE <<s[i]>> \o replace_from(s, sub, i + 1)

replace(s, sub) == replace_from(s, sub, 1)

\* for sub in REPL_SUB { content = content.replace(sub, ""); }
RECURSIVE strip_markup(_, _)
strip_markup(s, n) ==
    IF n > Len(REPL_SUB) THEN s
    ELSE strip_markup(replace(s, REPL_SUB[n]), n + 1)

RECURSIVE trim_start(_)
trim_start(s) ==
    IF s # <<>> /\ is_whitespace(Head(s)) THEN trim_start(Tail(s)) ELSE s

RECURSIVE trim_end(_)
trim_end(s) ==
    IF s # <<>> /\ is_whitespace(s[Len(s)])
        THEN trim_end(SubSeq(s, 1, Len(s) - 1))
        ELSE s

\* str::trim
trim(s) == trim_end(trim_start(s))

\* str::trim_start_matches('#')
RECURSIVE trim_start_matches_hash(_)
trim_start_matches_hash(s) ==
    IF s # <<>> /\ Head(s) = "#" THEN trim_start_matches_hash(Tail(s)) ELSE s

id_from_content(c) ==
    LET stripped == strip_markup(c, 1)
        trimmed == trim(trim_start_matches_hash(trim(stripped)))
    IN  normalize_id(trimmed)

(***************************************************************************)
(* Specification of fix: a destination and a base are handed in, fix       *)
(* returns the rewritten destination.                                      *)
(***************************************************************************)
Idle == <<>>

DestTokens == {
    <<"f", "o", "o">>, <<".", "m", "d">>, <<"m", "d">>, <<"#">>, <<"x">>,
    <<".">>, <<":">>, <<"h", "t", "t", "p">>, <<"H", "T", "T", "P">> }

Dests == {Flatten(ts) : ts \in SeqsUpTo(DestTokens, MaxDestTokens)}

Bases == {<<>>, <<"b", "k">>}

InitFix ==
    /\ pc = "fix"
    /\ dest \in Dests
    /\ base \in Bases
    /\ fixed_link = Idle
    /\ event = Idle /\ cleaned = Idle
    /\ events = Idle /\ converter = Idle /\ rendered = Idle
    /\ runs = Idle /\ curled = Idle
    /\ content = Idle /\ id = Idle

Fix ==
    /\ pc = "fix"
    /\ fixed_link' = fix(dest, base)
    /\ pc' = "fixed"
    /\ UNCHANGED <<dest, base, fenceVars, renderVars, quoteVars, idVars>>

NextFix == Fix

SpecFix == InitFix /\ [][NextFix]_vars

\* What the claims call the base prefix.
BasePrefix(b) == IF b # <<>> THEN b \o <<"/">> ELSE <<>>

\* A URI scheme prefix as the claims word it: a letter, then letters,
\* digits, '+', '-' or '.', then ':'.
Letters == AsciiUpper \cup AsciiLower
UriSchemePrefix(d) ==
    /\ Len(d) >= 2
    /\ d[1] \in Letters
    /\ \E k \in 2..Len(d) :
          /\ d[k] = ":"
          /\ \A j \in 2..(k - 1) : d[j] \in Letters \cup AsciiDigit \cup {"+", "-", "."}

\* d ends in ".md", optionally followed by a '#' and anything.
EndsInMd(d) ==
    \E p \in 1..Len(d) :
        IsMdAt(d, p) /\ (p + 2 = Len(d) \/ d[p + 3] = "#")

\* The fragment of d: from its first '#' on; the path is what precedes it.
FirstHash(d) ==
    IF \E i \in 1..Len(d) : d[i] = "#"
        THEN SetMin({i \in 1..Len(d) : d[i] = "#"})
        ELSE Len(d) + 1
PathOf(d) == SubSeq(d, 1, FirstHash(d) - 1)
FragmentOf(d) == SubSeq(d, FirstHash(d), Len(d))
PathEndsInMd(d) == IsMdAt(PathOf(d), Len(PathOf(d)) - 2)

\* C1: a destination that is not a scheme link and does not end in '.md'
\* (optionally followed by a '#fragment') comes back as the base prefix
\* followed by the destination unchanged.
C1_NonMdDestinationUnchanged ==
    (pc = "fixed" /\ ~UriSchemePrefix(dest) /\ ~EndsInMd(dest))
        => fixed_link = BasePrefix(base) \o dest

\* C2: a destination that begins with a URI scheme prefix (a letter, then
\* letters, digits, '+', '-' or '.', then ':') comes back identical,
\* whatever the base.
C2_SchemeDestinationIdentical ==
    (pc = "fixed" /\ UriSchemePrefix(dest)) => fixed_link = dest

\* C3: a non-scheme destination body + '.md' + fragment (fragment empty or
\* '#' followed by anything) comes back as base prefix + body + '.html' +
\* fragment, the fragment verbatim.
C3_MdRewrittenFragmentVerbatim ==
    (pc = "fixed" /\ ~UriSchemePrefix(dest) /\ PathEndsInMd(dest))
        => fixed_link = BasePrefix(base)
                        \o SubSeq(PathOf(dest), 1, Len(PathOf(dest)) - 3)
                        \o <<".", "h", "t", "m", "l">>
                        \o FragmentOf(dest)

(***************************************************************************)
(* Specification of clean_codeblock_headers: one event is handed in, the   *)
(* normalizer returns an event.                                            *)
(***************************************************************************)
InfoChars == {"r", ",", " ", TAB}

Infos == SeqsUpTo(InfoChars, MaxInfoLen)

FenceEvents ==
    {StartCodeBlock(i) : i \in Infos} \cup {EndCodeBlock(i) : i \in Infos}
    \cup {Text(i) : i \in Infos} \cup {Code(i) : i \in Infos}
    \cup {StartLink("Inline", i, i) : i \in Infos}

InitFence ==
    /\ pc = "clean"
    /\ event \in FenceEvents
    /\ cleaned = Idle
    /\ dest = Idle /\ base = Idle /\ fixed_link = Idle
    /\ events = Idle /\ converter = Idle /\ rendered = Idle
    /\ runs = Idle /\ curled = Idle
    /\ content = Idle /\ id = Idle

CleanCodeblockHeaders ==
    /\ pc = "clean"
    /\ cleaned' = clean_codeblock_headers(event)
    /\ pc' = "cleaned"
    /\ UNCHANGED <<event, base, fixVars, renderVars, quoteVars, idVars>>

NextFence == CleanCodeblockHeaders

SpecFence == InitFence /\ [][NextFence]_vars

NotWhitespace(ch) == ch \notin Whitespace

\* C8: Start(CodeBlock(info)) becomes Start(CodeBlock(info')), info' being
\* info without its whitespace characters and with every other character
\* (commas included) in its original order; every other event, End(CodeBlock)
\* with its unnormalized info included, comes back unchanged.
C8_FenceInfoNormalized ==
    pc = "cleaned" =>
        IF event.kind = "Start" /\ event.tag = "CodeBlock"
            THEN cleaned = [event EXCEPT !.info = SelectSeq(event.info, NotWhitespace)]
            ELSE cleaned = event

\* The fence of the test: whitespace between, consecutive and trailing commas.
C8_Witness ==
    /\ pc = "cleaned"
    /\ event = StartCodeBlock(<<",", " ", ",">>)
    /\ cleaned = StartCodeBlock(<<",", ",">>)

(***************************************************************************)
(* Specification of render_markdown_with_base: the parser's events go, one *)
(* at a time, through clean_codeblock_headers, adjust_links and            *)
(* converter.convert, and are handed to push_html.                         *)
(***************************************************************************)
MdDest == <<"f", ".", "m", "d">>
SchemeDest == <<"h", ":", "x">>
FenceInfo == <<"r", " ", ",">>
Title == <<"t">>

RenderEvents == {
    Text(<<"'", "a", "\"">>), Text(<<"a">>), Code(<<"'">>),
    StartCodeBlock(FenceInfo), EndCodeBlock(FenceInfo), StartCodeBlock(<<>>),
    StartLink("Inline", MdDest, Title), EndLink("Inline", MdDest, Title),
    StartLink("Autolink", SchemeDest, <<>>),
    StartImage("Inline", MdDest, Title), EndImage("Inline", MdDest, Title),
    StartImage("Inline", SchemeDest, <<>>) }

InitRender ==
    /\ pc = "render"
    /\ events \in SeqsUpTo(RenderEvents, MaxEvents)
    /\ base \in Bases
    /\ \E curly_quotes \in BOOLEAN : converter = EventQuoteConverter_new(curly_quotes)
    /\ rendered = <<>>
    /\ dest = Idle /\ fixed_link = Idle
    /\ event = Idle /\ cleaned = Idle
    /\ runs = Idle /\ curled = Idle
    /\ content = Idle /\ id = Idle

\* push_html pulls the next event through the three maps.
RenderEvent ==
    /\ pc = "render"
    /\ Len(rendered) < Len(events)
    /\ LET e == events[Len(rendered) + 1]
           r == convert(converter, adjust_links(clean_codeblock_headers(e), base))
       IN  /\ converter' = r.self
           /\ rendered' = Append(rendered, r.event)
    /\ UNCHANGED <<pc, events, base, fixVars, fenceVars, quoteVars, idVars>>

\* The parser is exhausted: push_html returns.
RenderDone ==
    /\ pc = "render"
    /\ Len(rendered) = Len(events)
    /\ pc' = "rendered"
    /\ UNCHANGED <<events, base, converter, rendered, fixVars, fenceVars,
                   quoteVars, idVars>>

NextRender == RenderEvent \/ RenderDone

SpecRender == InitRender /\ [][NextRender]_vars

Rendering == pc \in {"render", "rendered"}

IsStartCodeBlock(e) == e.kind = "Start" /\ e.tag = "CodeBlock"
IsEndCodeBlock(e) == e.kind = "End" /\ e.tag = "CodeBlock"

\* Position i of evs lies between a Start(CodeBlock) and the next End(CodeBlock).
InsideCodeBlock(evs, i) ==
    \E j \in 1..(i - 1) :
        /\ IsStartCodeBlock(evs[j])
        /\ \A k \in (j + 1)..(i - 1) : ~IsEndCodeBlock(evs[k])

\* out is the curled form of text: the same characters, but a straight quote
\* is the opening curly quote at the start of the text and after whitespace,
\* and the closing one elsewhere.
IsCurledFormOf(out, text) ==
    /\ Len(out) = Len(text)
    /\ \A k \in 1..Len(text) :
          LET opening == k = 1 \/ text[k - 1] \in Whitespace
          IN  out[k] = IF text[k] = "'" THEN (IF opening THEN LSQUO ELSE RSQUO)
                       ELSE IF text[k] = "\"" THEN (IF opening THEN LDQUO ELSE RDQUO)
                       ELSE text[k]

\* The event convert receives for position i: events[i] after the two
\* earlier stages.
ConvertInput(i) == adjust_links(clean_codeblock_headers(events[i]), base)

\* C4: a Text event is replaced by its curled form exactly when the
\* converter is enabled and the event does not lie between a
\* Start(CodeBlock) and the next End(CodeBlock); every other event, every
\* Text inside a code block, and every event of a disabled converter is
\* emitted unchanged.
C4_CurledExactlyOutsideCodeBlocks ==
    Rendering =>
        \A i \in 1..Len(rendered) :
            LET e == ConvertInput(i)
            IN  IF e.kind = "Text" /\ converter.enabled /\ ~InsideCodeBlock(events, i)
                    THEN /\ rendered[i] = [e EXCEPT !.text = rendered[i].text]
                         /\ IsCurledFormOf(rendered[i].text, e.text)
                    ELSE rendered[i] = e

\* A quoted Text outside a code block was curled, the same Text inside the
\* code block was not.
C4_Witness ==
    /\ pc = "rendered"
    /\ converter.enabled
    /\ events = <<Text(<<"'", "a", "\"">>), StartCodeBlock(FenceInfo),
                  Text(<<"'", "a", "\"">>)>>
    /\ rendered[1] = Text(<<LSQUO, "a", RDQUO>>)
    /\ rendered[3] = events[3]

HasQuote(text) == \E k \in 1..Len(text) : text[k] \in {"'", "\""}

NoLinks(evs) == \A i \in 1..Len(evs) : evs[i].tag # "Link"
NoFences(evs) == \A i \in 1..Len(evs) : evs[i].tag = "CodeBlock" => evs[i].info = <<>>
NoQuotes(evs) == \A i \in 1..Len(evs) : ~HasQuote(evs[i].text)
ImagesHaveLowercaseScheme(evs) ==
    \A i \in 1..Len(evs) : evs[i].tag = "Image" => SCHEME_LINK_is_match(evs[i].dest)

\* C5 as stated: with no link, no code fence and no quote character
\* (images allowed), the events handed to the serializer are the parser's
\* events.
C5_NoLinksFencesQuotesIdentity ==
    (Rendering /\ NoLinks(events) /\ NoFences(events) /\ NoQuotes(events))
        => rendered = SubSeq(events, 1, Len(rendered))

\* C5 amended: with no link, no code fence, no quote character in any text
\* and no image but those whose destination starts with a lowercase URI
\* scheme, the events handed to the serializer are the parser's events.
C5_NoRelativeImagesIdentity ==
    (Rendering /\ NoLinks(events) /\ NoFences(events) /\ NoQuotes(events)
        /\ ImagesHaveLowercaseScheme(events))
        => rendered = SubSeq(events, 1, Len(rendered))

\* An image with a scheme, a text and an indented code block have gone
\* through an enabled converter under a non-empty base.
C5_Witness ==
    /\ pc = "rendered"
    /\ converter.enabled
    /\ base # <<>>
    /\ events = <<StartImage("Inline", SchemeDest, <<>>), StartCodeBlock(<<>>),
                  Text(<<"a">>)>>
    /\ rendered = events

\* C7: the output has an event of the same kind and tag at every position
\* (none dropped, inserted or reordered); adjust_links changes at most the
\* destination of a Start(Link) or Start(Image) and returns every other
\* event, End(Link) and End(Image) included, identical.
C7_EventsKeptInPlace ==
    Rendering =>
        /\ Len(rendered) <= Len(events)
        /\ pc = "rendered" => Len(rendered) = Len(events)
        /\ \A i \in 1..Len(rendered) :
              /\ rendered[i].kind = events[i].kind
              /\ rendered[i].tag = events[i].tag
              /\ rendered[i].link_type = events[i].link_type
              /\ rendered[i].title = events[i].title
              /\ events[i].tag \in {"Link", "Image"} =>
                    /\ rendered[i] = [events[i] EXCEPT !.dest = rendered[i].dest]
                    /\ events[i].kind = "End" => rendered[i] = events[i]
        /\ \A i \in 1..Len(events) :
              LET e == clean_codeblock_headers(events[i])
                  a == adjust_links(e, base)
              IN  IF e.kind = "Start" /\ e.tag \in {"Link", "Image"}
                      THEN a = [e EXCEPT !.dest = a.dest]
                      ELSE a = e

\* A link start was rewritten, its end and an image start kept their place.
C7_Witness ==
    /\ pc = "rendered"
    /\ events = <<StartLink("Inline", MdDest, Title), EndLink("Inline", MdDest, Title),
                  StartImage("Inline", MdDest, Title)>>
    /\ rendered[1].dest # MdDest
    /\ rendered[2] = events[2]
    /\ rendered[3].dest = rendered[1].dest

\* One stage applied to one event: the converter afterwards and the event.
ApplyStage(stage, self, e, b) ==
    IF stage = "clean" THEN [self |-> self, event |-> clean_codeblock_headers(e)]
    ELSE IF stage = "adjust" THEN [self |-> self, event |-> adjust_links(e, b)]
    ELSE convert(self, e)

\* The pipeline with its stages in the given order, from converter self.
RECURSIVE RunInOrder(_, _, _, _)
RunInOrder(order, evs, self, b) ==
    IF evs = <<>> THEN [self |-> self, out |-> <<>>]
    ELSE LET r1 == ApplyStage(order[1], self, Head(evs), b)
             r2 == ApplyStage(order[2], r1.self, r1.event, b)
             r3 == ApplyStage(order[3], r2.self, r2.event, b)
             rest == RunInOrder(order, Tail(evs), r3.self, b)
         IN  [self |-> rest.self, out |-> <<r3.event>> \o rest.out]

StageOrders ==
    {o \in [1..3 -> {"clean", "adjust", "convert"}] :
        \A i, j \in 1..3 : i # j => o[i] # o[j]}

\* C10: whatever the order of the three stages, the events handed to the
\* serializer and the converter's final state are those of the code's order.
C10_StageOrderIrrelevant ==
    Rendering =>
        \A o \in StageOrders :
            RunInOrder(o, SubSeq(events, 1, Len(rendered)),
                       EventQuoteConverter_new(converter.enabled), base)
                = [self |-> converter, out |-> rendered]

\* A fence with whitespace in its info, a quoted text inside it and a
\* relative link went through an enabled converter.
C10_Witness ==
    /\ pc = "rendered"
    /\ converter.enabled
    /\ base # <<>>
    /\ events = <<StartCodeBlock(FenceInfo), Text(<<"'", "a", "\"">>),
                  StartLink("Inline", MdDest, Title)>>
    /\ rendered[1] # events[1]
    /\ rendered[3] # events[3]
    /\ ~converter.convert_text

(***************************************************************************)
(* Specification of convert_quotes_to_curly: two text runs are converted,  *)
(* one call after the other.                                               *)
(***************************************************************************)
QuoteChars == {"'", "\"", " ", TAB, "a"}

Texts == SeqsUpTo(QuoteChars, MaxTextLen)

InitQuotes ==
    /\ pc = "quotes"
    /\ runs \in [1..2 -> Texts]
    /\ curled = <<>>
    /\ dest = Idle /\ base = Idle /\ fixed_link = Idle
    /\ event = Idle /\ cleaned = Idle
    /\ events = Idle /\ converter = Idle /\ rendered = Idle
    /\ content = Idle /\ id = Idle

ConvertQuotesToCurly ==
    /\ pc = "quotes"
    /\ Len(curled) < Len(runs)
    /\ curled' = Append(curled, convert_quotes_to_curly(runs[Len(curled) + 1]))
    /\ UNCHANGED <<pc, runs, base, fixVars, fenceVars, renderVars, idVars>>

NextQuotes == ConvertQuotesToCurly

SpecQuotes == InitQuotes /\ [][NextQuotes]_vars

\* C9: every run is converted character by character with a cursor that is
\* true at the start of the run, whatever the run before it, and is
\* afterwards whether the previous original character is whitespace: a
\* straight quote becomes the opening curly quote under a true cursor and
\* the closing one otherwise, every other character is unchanged, and the
\* output has the length of the input.
C9_QuotesCurledPerRun ==
    pc = "quotes" =>
        \A r \in 1..Len(curled) :
            /\ IsCurledFormOf(curled[r], runs[r])
            /\ Len(curled[r]) = Len(runs[r])
            /\ \A k \in 1..Len(runs[r]) :
                  runs[r][k] \notin {"'", "\""} => curled[r][k] = runs[r][k]

\* The first run ends in a letter, the second starts with a quote, which
\* opens; a quote after a tab opens and one after a letter closes.
C9_Witness ==
    /\ pc = "quotes"
    /\ runs = <<<<"a">>, <<"'", TAB, "\"">>>>
    /\ curled = <<<<"a">>, <<LSQUO, TAB, LDQUO>>>>

(***************************************************************************)
(* Specification of the anchor id deriver: a content string is handed to   *)
(* id_from_content or to normalize_id.                                     *)
(***************************************************************************)
ContentTokens == {
    <<"A">>, <<"b">>, <<"U+00DC">>, <<"U+4E2D">>, <<" ">>, <<"U+3000">>,
    <<"_">>, <<"-">>, <<"#">>, <<"!">>, <<"U+1F419">>,
    <<"<", "e", "m", ">">>, <<"&", "l", "t", ";">>, <<"&", "a", "m">>,
    <<"p", ";">> }

Contents == {Flatten(ts) : ts \in SeqsUpTo(ContentTokens, MaxContentTokens)}

InitId ==
    /\ pc = "id"
    /\ content \in Contents
    /\ id = Idle
    /\ dest = Idle /\ base = Idle /\ fixed_link = Idle
    /\ event = Idle /\ cleaned = Idle
    /\ events = Idle /\ converter = Idle /\ rendered = Idle
    /\ runs = Idle /\ curled = Idle

IdFromContent ==
    /\ pc = "id"
    /\ id' = id_from_content(content)
    /\ pc' = "id_from_content"
    /\ UNCHANGED <<content, base, fixVars, fenceVars, renderVars, quoteVars>>

NormalizeId ==
    /\ pc = "id"
    /\ id' = normalize_id(content)
    /\ pc' = "normalize_id"
    /\ UNCHANGED <<content, base, fixVars, fenceVars, renderVars, quoteVars>>

NextId == IdFromContent \/ NormalizeId

SpecId == InitId /\ [][NextId]_vars

\* char::to_lowercase on the characters of the model.
to_lowercase(ch) ==
    IF ch \in NonAsciiUpper THEN "U+00FC" ELSE to_ascii_lowercase(ch)

IsUppercase(ch) == ch \in AsciiUpper \cup NonAsciiUpper

\* The content normalize_id receives from id_from_content.
Prepared(c) == trim(trim_start_matches_hash(trim(strip_markup(c, 1))))

\* The image of one character as C6 states it.
LowercaseImage(ch) ==
    IF is_alphanumeric(ch) THEN <<to_lowercase(ch)>>
    ELSE IF ch \in {"_", "-"} THEN <<ch>>
    ELSE IF ch \in Whitespace THEN <<"-">>
    ELSE <<>>

\* The image of one character with only the ASCII letters lowercased.
AsciiLowercaseImage(ch) ==
    IF ch \in AsciiUpper THEN <<to_lowercase(ch)>>
    ELSE IF is_alphanumeric(ch) \/ ch \in {"_", "-"} THEN <<ch>>
    ELSE IF ch \in Whitespace THEN <<"-">>
    ELSE <<>>

\* C6 as stated: the id is the concatenation of the images of the prepared
\* content's characters, every alphanumeric with a lowercase form emitted in
\* lowercase; it holds no uppercase letter and no whitespace, and the empty
\* content gives the empty id.
C6_IdLowercased ==
    LET s == IF pc = "id_from_content" THEN Prepared(content) ELSE content
    IN  pc \in {"id_from_content", "normalize_id"} =>
            /\ id = Flatten([k \in 1..Len(s) |-> LowercaseImage(s[k])])
            /\ \A k \in 1..Len(id) : ~IsUppercase(id[k]) /\ id[k] \notin Whitespace
            /\ content = <<>> => id = <<>>

\* C6 amended: as C6, but only the ASCII letters are lowercased; every other
\* alphanumeric is emitted as is, and the id holds no ASCII uppercase letter
\* and no whitespace.
C6_IdAsciiLowercased ==
    LET s == IF pc = "id_from_content" THEN Prepared(content) ELSE content
    IN  pc \in {"id_from_content", "normalize_id"} =>
            /\ id = Flatten([k \in 1..Len(s) |-> AsciiLowercaseImage(s[k])])
            /\ \A k \in 1..Len(id) : id[k] \notin AsciiUpper /\ id[k] \notin Whitespace
            /\ content = <<>> => id = <<>>

\* A heading with a marker, an ASCII capital and a non-ASCII capital went
\* through id_from_content.
C6_Witness ==
    /\ pc = "id_from_content"
    /\ content = <<"#", "A", "U+00DC">>
    /\ id = <<"a", "U+00DC">>

=============================================================================
